---- MODULE Spec2Model ----
(***************************************************************************)
(* A model of the buckets control loop: the bucket store (NBuckets), the   *)
(* sensor's extremum queries, the Spread/NoOp policies, the Controller and *)
(* Actuator cycles, and the four tasks spawned by run() in main.rs that    *)
(* share the store lock, the event-log lock, the bounded Action channel    *)
(* and the cancellation token.                                             *)
(***************************************************************************)
EXTENDS Integers, Sequences, FiniteSets, TLC

\* ---------------------------------------------------------------- constants

\* buckets/mod.rs: pub const MAX_QUANTITY: u64 = 100;
MAX_QUANTITY == 100

\* main.rs: const CONTROL_SIGNAL_BUFFER_SIZE: usize = 10;
CONTROL_SIGNAL_BUFFER_SIZE == 10

\* ------------------------------------------------------------------- bounds

\* Disturbance passes (fill) the disturbance task performs in one run.
MaxFills == 1
\* Controller cycles in one run of the whole system.
MaxCycles == 2
\* Controller cycles in a run where only Controller and Actuator are scheduled.
MaxBurst == 11
\* Calls made on a store in a run of the store on its own.
MaxOps == 2

\* ------------------------------------------------------------------- inputs

\* A HashMap<u64, u64> is a function from the bucket ids it holds to quantities.
Map2(a, b) == (1 :> a) @@ (2 :> b)

Map3(a, b, c) == (1 :> a) @@ (2 :> b) @@ (3 :> c)

\* The initial mappings (Args.initial_data) of the runs of the whole system: an
\* all-equal store and one with both extremes.
InitialData == { Map2(50, 50), Map2(100, 0) }

\* The initial mappings of a store on its own; all quantities within
\* [0, MAX_QUANTITY]; Map3(45, 72, 38) is the default of the command line.
StoreInputs ==
    InitialData \cup
    { Map2(a, b) : a \in {0, 10, 99, 100}, b \in {0, 10, 100} } \cup
    { Map3(45, 72, 38), Map3(50, 50, 50), Map3(72, 38, 72), Map3(38, 72, 38),
      (1 :> 10) }

\* Bucket ids and amounts transfer is called with; 3 is absent from the stores
\* of one or two buckets.
TransferIds == 1..3

Amounts == {0, 1, 17, 101}

Policies == {"Spread", "NoOp"}

\* ------------------------------------------------------------------ actions

NoAction == [type |-> "NoAction"]

Transfer(s, d, a) ==
    [type |-> "Transfer", source |-> s, destination |-> d, amount |-> a]

\* Option<T>
None == << >>

Some(x) == << x >>

\* -------------------------------------------------------------------- store

\* Mutant of saturating_add_signed: the change is taken away (saturating at 0).
saturating_sub_signed(value, change) ==
    IF value < change THEN 0 ELSE value - change

\* u64::saturating_add_signed: saturates at u64::MAX = 2^64 - 1, which no
\* quantity reaches within MaxFills passes, so the sum is never clipped here.
saturating_add_signed(value, change) == value + change

\* NBuckets::get_bucket
get_bucket(d, bucket) ==
    IF bucket \in DOMAIN d THEN [ok |-> TRUE, val |-> d[bucket]]
    ELSE [ok |-> FALSE, val |-> 0]

\* HashMap::insert on an existing or a new key
insert(d, k, v) == [x \in (DOMAIN d) \cup {k} |-> IF x = k THEN v ELSE d[x]]

\* One iteration of the loop of NBuckets::fill
fill_bucket(d, b, change) ==
    [d EXCEPT ![b] = saturating_add_signed(d[b], change)]

\* NBuckets::fill, changes[b] being the random_range(0..=1) drawn for bucket b
fill(d, changes) ==
    [b \in DOMAIN d |-> saturating_add_signed(d[b], changes[b])]

\* Mutant of transfer_plan: the source amount is not checked.
transfer_plan_no_source_check(d, source, destination, amount) ==
    LET s == get_bucket(d, source)
        t == get_bucket(d, destination)
    IN  IF ~s.ok THEN [ok |-> FALSE, err |-> "no bucket"]
        ELSE IF ~t.ok THEN [ok |-> FALSE, err |-> "no bucket"]
        ELSE IF t.val + amount > MAX_QUANTITY
             THEN [ok |-> FALSE, err |-> "destination amount is too large"]
        ELSE [ok |-> TRUE, err |-> "",
              new_source_amount |-> s.val - amount,
              new_destination_amount |-> t.val + amount]

\* Mutant of transfer_plan: a destination that reaches MAX_QUANTITY exactly is
\* refused (>= for >).
transfer_plan_refuses_full(d, source, destination, amount) ==
    LET s == get_bucket(d, source)
        t == get_bucket(d, destination)
    IN  IF ~s.ok THEN [ok |-> FALSE, err |-> "no bucket"]
        ELSE IF ~t.ok THEN [ok |-> FALSE, err |-> "no bucket"]
        ELSE IF s.val < amount
             THEN [ok |-> FALSE, err |-> "transfer amount exceeds source amount"]
        ELSE IF t.val + amount >= MAX_QUANTITY
             THEN [ok |-> FALSE, err |-> "destination amount is too large"]
        ELSE [ok |-> TRUE, err |-> "",
              new_source_amount |-> s.val - amount,
              new_destination_amount |-> t.val + amount]

\* Mutant of transfer_plan: a destination absent from the map counts as empty
\* and is created by the insert.
transfer_plan_creates_destination(d, source, destination, amount) ==
    LET s == get_bucket(d, source)
        t == get_bucket(d, destination)
    IN  IF ~s.ok THEN [ok |-> FALSE, err |-> "no bucket"]
        ELSE IF s.val < amount
             THEN [ok |-> FALSE, err |-> "transfer amount exceeds source amount"]
        ELSE IF t.val + amount > MAX_QUANTITY
             THEN [ok |-> FALSE, err |-> "destination amount is too large"]
        ELSE [ok |-> TRUE, err |-> "",
              new_source_amount |-> s.val - amount,
              new_destination_amount |-> t.val + amount]

\* The checks of NBuckets::transfer and the two amounts it computes.
transfer_plan(d, source, destination, amount) ==
    LET s == get_bucket(d, source)
        t == get_bucket(d, destination)
    IN  IF ~s.ok THEN [ok |-> FALSE, err |-> "no bucket"]
        ELSE IF ~t.ok THEN [ok |-> FALSE, err |-> "no bucket"]
        ELSE IF s.val < amount
             THEN [ok |-> FALSE, err |-> "transfer amount exceeds source amount"]
        ELSE IF t.val + amount > MAX_QUANTITY
             THEN [ok |-> FALSE, err |-> "destination amount is too large"]
        ELSE [ok |-> TRUE, err |-> "",
              new_source_amount |-> s.val - amount,
              new_destination_amount |-> t.val + amount]

\* NBuckets::transfer: the result and the map after the call
transfer(d, source, destination, amount) ==
    LET p == transfer_plan(d, source, destination, amount)
    IN  IF ~p.ok THEN [ok |-> FALSE, err |-> p.err, data |-> d]
        ELSE [ok |-> TRUE, err |-> "",
              data |-> insert(insert(d, source, p.new_source_amount),
                              destination, p.new_destination_amount)]

RECURSIVE SumOver(_, _)
SumOver(d, ids) ==
    IF ids = {} THEN 0
    ELSE LET b == CHOOSE x \in ids : TRUE
         IN  d[b] + SumOver(d, ids \ {b})

Total(d) == SumOver(d, DOMAIN d)

InRange(d) == \A b \in DOMAIN d : 0 <= d[b] /\ d[b] <= MAX_QUANTITY

\* ------------------------------------------------------------------- sensor

\* The orders in which a HashMap over ids may be iterated.
Orders(ids) ==
    { o \in [1..Cardinality(ids) -> ids] : \A i, j \in DOMAIN o : o[i] = o[j] => i = j }

\* Ord for the tuples (value, bucket): lexicographic.
TupleLess(a, b) == a[1] < b[1] \/ (a[1] = b[1] /\ a[2] < b[2])

\* Iterator::min keeps the first of equal elements, Iterator::max the last.
RECURSIVE IterMin(_, _, _)
IterMin(seq, i, m) ==
    IF i > Len(seq) THEN m
    ELSE IterMin(seq, i + 1, IF TupleLess(seq[i], m) THEN seq[i] ELSE m)

RECURSIVE IterMax(_, _, _)
IterMax(seq, i, m) ==
    IF i > Len(seq) THEN m
    ELSE IterMax(seq, i + 1, IF TupleLess(seq[i], m) THEN m ELSE seq[i])

\* .iter().map(|(bucket, value)| (value, bucket)) in iteration order o
Flipped(d, o) == [i \in DOMAIN o |-> << d[o[i]], o[i] >>]

\* Sensor::get_smallest_bucket: Option<(bucket, value)>
get_smallest_bucket(d, o) ==
    IF DOMAIN d = {} THEN None
    ELSE LET m == IterMin(Flipped(d, o), 2, Flipped(d, o)[1])
         IN  Some(<< m[2], m[1] >>)

\* Sensor::get_largest_bucket: Option<(bucket, value)>
get_largest_bucket(d, o) ==
    IF DOMAIN d = {} THEN None
    ELSE LET m == IterMax(Flipped(d, o), 2, Flipped(d, o)[1])
         IN  Some(<< m[2], m[1] >>)

\* ------------------------------------------------------------------- policy

\* Mutant of spread: the whole difference is transferred, not half of it.
spread_whole_gap(min_bucket, max_bucket) ==
    IF min_bucket = max_bucket THEN NoAction
    ELSE IF min_bucket # None /\ max_bucket # None
         THEN LET diff == max_bucket[1][2] - min_bucket[1][2]
              IN  Transfer(max_bucket[1][1], min_bucket[1][1], diff)
         ELSE NoAction

\* Mutant of spread: source and destination are swapped (the Transfer goes
\* from the smallest bucket to the largest).
spread_from_smallest(min_bucket, max_bucket) ==
    IF min_bucket = max_bucket THEN NoAction
    ELSE IF min_bucket # None /\ max_bucket # None
         THEN LET diff == max_bucket[1][2] - min_bucket[1][2]
                  transfer_amount == diff \div 2
              IN  Transfer(min_bucket[1][1], max_bucket[1][1], transfer_amount)
         ELSE NoAction

\* Mutant of spread: the amount is half of the largest quantity, not half of
\* the difference.
spread_half_of_largest(min_bucket, max_bucket) ==
    IF min_bucket = max_bucket THEN NoAction
    ELSE IF min_bucket # None /\ max_bucket # None
         THEN LET transfer_amount == max_bucket[1][2] \div 2
              IN  Transfer(max_bucket[1][1], min_bucket[1][1], transfer_amount)
         ELSE NoAction

\* Mutant of spread: the test min_bucket == max_bucket is missing.
spread_no_equal_test(min_bucket, max_bucket) ==
    IF min_bucket # None /\ max_bucket # None
    THEN LET diff == max_bucket[1][2] - min_bucket[1][2]
             transfer_amount == diff \div 2
         IN  Transfer(max_bucket[1][1], min_bucket[1][1], transfer_amount)
    ELSE NoAction

\* Mutant of spread: half of the difference is rounded up, not down.
spread_rounds_up(min_bucket, max_bucket) ==
    IF min_bucket = max_bucket THEN NoAction
    ELSE IF min_bucket # None /\ max_bucket # None
         THEN LET diff == max_bucket[1][2] - min_bucket[1][2]
                  transfer_amount == (diff + 1) \div 2
              IN  Transfer(max_bucket[1][1], min_bucket[1][1], transfer_amount)
         ELSE NoAction

\* The end of Policy::analyze for Spread, from the two extremum reads.
spread(min_bucket, max_bucket) ==
    IF min_bucket = max_bucket THEN NoAction
    ELSE IF min_bucket # None /\ max_bucket # None
         THEN LET diff == max_bucket[1][2] - min_bucket[1][2]
                  transfer_amount == diff \div 2
              IN  Transfer(max_bucket[1][1], min_bucket[1][1], transfer_amount)
         ELSE NoAction

\* Policy::analyze on a store that does not change during the call.
analyze(p, d, o1, o2) ==
    IF p = "Spread"
    THEN spread(get_smallest_bucket(d, o1), get_largest_bucket(d, o2))
    ELSE NoAction

\* -------------------------------------------------------------------- state

VARIABLES
    data,        \* NBuckets.data: the store, bucket id -> quantity
    policy,      \* Controller.policy
    chan,        \* the Actions buffered in the mpsc channel, oldest first
    closed,      \* the channel's Sender has been dropped
    cancelled,   \* the CancellationToken has been cancelled
    pc,          \* where each task of run() is
    bLock,       \* the holder of the store's Mutex, or "none"
    events,      \* Events.events
    fillTodo,    \* the buckets the running fill pass has not visited yet
    ctlMin,      \* min_bucket of the running Policy::analyze
    ctlAction,   \* the Action the Controller is sending
    actAction,   \* maybe_action of the running Actuator::run
    actDst,      \* new_destination_amount of the running transfer
    produced,    \* history: the Actions whose send has completed, in order
    received,    \* history: the Actions recv has returned, in order
    nFills,      \* history: disturbance passes started
    nOps,        \* history: calls made on the store on its own
    last,        \* history: the last call on the store and its outcome
    seen,        \* history: what has been observed so far in the run
    eLock        \* the holder of the Events Mutex, or "none"

vars ==
    << data, policy, chan, closed, cancelled, pc, bLock, events, fillTodo,
       ctlMin, ctlAction, actAction, actDst, produced, received, nFills, nOps,
       last, seen, eLock >>

Tasks == {"fill", "tui", "ctl", "act"}

CoreTasks == {"fill", "ctl", "act"}

\* A task that has returned: Ok ("done") or Err ("failed").
Finished == {"done", "failed"}

NoCall == [op |-> "none"]

\* lockStep: so far every Controller cycle has read the store with no earlier
\* Action still waiting to be applied.
NothingSeen ==
    [recvNone |-> FALSE, actBlockedAtCancel |-> FALSE, lockStep |-> TRUE]

\* The state after main() has built the store, the channel, the Controller and
\* the Actuator and run() has spawned the four tasks.
InitWith(d, p) ==
    /\ data = d
    /\ policy = p
    /\ chan = << >>
    /\ closed = FALSE
    /\ cancelled = FALSE
    /\ pc = [t \in Tasks |-> "select"]
    /\ bLock = "none"
    /\ events = << >>
    /\ fillTodo = {}
    /\ ctlMin = None
    /\ ctlAction = NoAction
    /\ actAction = None
    /\ actDst = 0
    /\ produced = << >>
    /\ received = << >>
    /\ nFills = 0
    /\ nOps = 0
    /\ last = NoCall
    /\ seen = NothingSeen
    /\ eLock = "none"

Init == \E d \in InitialData, p \in Policies : InitWith(d, p)

\* ----------------------------------------------------------- disturbance task

fillVars == << data, fillTodo, nFills, events >>

ctlVars == << ctlMin, ctlAction, produced >>

actVars == << actAction, actDst, received, last >>

envVars == << policy, closed, nOps >>

\* run_fill: the sleep branch of select! wins.
FillTimer ==
    /\ pc["fill"] = "select"
    /\ ~cancelled
    /\ nFills < MaxFills
    /\ pc' = [pc EXCEPT !["fill"] = "lock_b"]
    /\ nFills' = nFills + 1
    /\ UNCHANGED << eLock, data, fillTodo, events, chan, cancelled, bLock, seen >>
    /\ UNCHANGED << ctlVars, actVars, envVars >>

\* run_fill: the ct.cancelled() branch of select! wins.
FillCancelled ==
    /\ pc["fill"] = "select"
    /\ cancelled
    /\ pc' = [pc EXCEPT !["fill"] = "done"]
    /\ UNCHANGED << eLock, fillVars, chan, cancelled, bLock, seen >>
    /\ UNCHANGED << ctlVars, actVars, envVars >>

\* buckets.lock().await returns the guard; fill() starts iterating the map.
FillLock ==
    /\ pc["fill"] = "lock_b"
    /\ bLock = "none"
    /\ bLock' = "fill"
    /\ fillTodo' = DOMAIN data
    /\ pc' = [pc EXCEPT !["fill"] = "filling"]
    /\ UNCHANGED << eLock, data, nFills, events, chan, cancelled, seen >>
    /\ UNCHANGED << ctlVars, actVars, envVars >>

\* One iteration of the loop of fill(), in the map's iteration order.
FillBucket ==
    /\ pc["fill"] = "filling"
    /\ \E b \in fillTodo, change \in {0, 1} :
          /\ data' = fill_bucket(data, b, change)
          /\ fillTodo' = fillTodo \ {b}
    /\ UNCHANGED << eLock, nFills, events, pc, chan, cancelled, bLock, seen >>
    /\ UNCHANGED << ctlVars, actVars, envVars >>

\* fill() returns and the guard, a temporary of the statement, is dropped.
FillUnlock ==
    /\ pc["fill"] = "filling"
    /\ fillTodo = {}
    /\ bLock' = "none"
    /\ pc' = [pc EXCEPT !["fill"] = "lock_e"]
    /\ UNCHANGED << eLock, fillVars, chan, cancelled, seen >>
    /\ UNCHANGED << ctlVars, actVars, envVars >>

\* events.lock().await.add(EventSource::Filler, ...); the Events mutex is taken
\* and released within the statement.
FillLog ==
    /\ pc["fill"] = "lock_e"
    /\ events' = Append(events, [source |-> "Filler", message |-> "filled"])
    /\ pc' = [pc EXCEPT !["fill"] = "select"]
    /\ UNCHANGED << eLock, data, fillTodo, nFills, chan, cancelled, bLock, seen >>
    /\ UNCHANGED << ctlVars, actVars, envVars >>

FillNext ==
    \/ FillTimer
    \/ FillCancelled
    \/ FillLock
    \/ FillBucket
    \/ FillUnlock
    \/ FillLog

\* ---------------------------------------------------------------- display task

\* Mutant of TuiTimer: the display locks the events first and keeps the guard
\* while it goes on to lock the store.
TuiTimerLocksEventsFirst ==
    /\ pc["tui"] = "select"
    /\ ~cancelled
    /\ eLock = "none"
    /\ eLock' = "tui"
    /\ pc' = [pc EXCEPT !["tui"] = "lock_b"]
    /\ UNCHANGED << fillVars, chan, cancelled, bLock, seen >>
    /\ UNCHANGED << ctlVars, actVars, envVars >>

\* run_tui: the sleep branch of select! wins.
TuiTimer ==
    /\ pc["tui"] = "select"
    /\ ~cancelled
    /\ pc' = [pc EXCEPT !["tui"] = "lock_b"]
    /\ UNCHANGED << eLock, fillVars, chan, cancelled, bLock, seen >>
    /\ UNCHANGED << ctlVars, actVars, envVars >>

\* run_tui: reader.next() yields the key 'q' and handle_event calls ct.cancel().
TuiKeyQ ==
    /\ pc["tui"] = "select"
    /\ ~cancelled
    /\ cancelled' = TRUE
    /\ seen' = [seen EXCEPT !.actBlockedAtCancel =
                    (pc["act"] = "recv" /\ chan = << >>)]
    /\ UNCHANGED << eLock, fillVars, chan, pc, bLock >>
    /\ UNCHANGED << ctlVars, actVars, envVars >>

\* run_tui: the ct.cancelled() branch of select! wins.
TuiCancelled ==
    /\ pc["tui"] = "select"
    /\ cancelled
    /\ pc' = [pc EXCEPT !["tui"] = "done"]
    /\ UNCHANGED << eLock, fillVars, chan, cancelled, bLock, seen >>
    /\ UNCHANGED << ctlVars, actVars, envVars >>

\* Mutant of TuiData: the display reads the map without taking the lock.
TuiDataUnlocked ==
    /\ pc["tui"] = "lock_b"
    /\ pc' = [pc EXCEPT !["tui"] = "lock_e"]
    /\ UNCHANGED << eLock, fillVars, chan, cancelled, bLock, seen >>
    /\ UNCHANGED << ctlVars, actVars, envVars >>

\* app.lock().await.data(): the store is read under its lock, which is dropped
\* at the end of the statement.
TuiData ==
    /\ pc["tui"] = "lock_b"
    /\ bLock = "none"
    /\ pc' = [pc EXCEPT !["tui"] = "lock_e"]
    /\ UNCHANGED << eLock, fillVars, chan, cancelled, bLock, seen >>
    /\ UNCHANGED << ctlVars, actVars, envVars >>

\* events.lock().await.get_all() ... collect(), then terminal.lock().await.draw().
TuiDraw ==
    /\ pc["tui"] = "lock_e"
    /\ pc' = [pc EXCEPT !["tui"] = "select"]
    /\ UNCHANGED << eLock, fillVars, chan, cancelled, bLock, seen >>
    /\ UNCHANGED << ctlVars, actVars, envVars >>

TuiNext ==
    \/ TuiTimer
    \/ TuiKeyQ
    \/ TuiCancelled
    \/ TuiData
    \/ TuiDraw

\* -------------------------------------------------------------- controller task

\* run_control_loop: the sleep branch of select! wins; controller.run() starts.
CtlTimer(bound) ==
    /\ pc["ctl"] = "select"
    /\ ~cancelled
    /\ Len(produced) < bound
    /\ pc' = [pc EXCEPT !["ctl"] = "lock_b"]
    /\ UNCHANGED << eLock, fillVars, chan, cancelled, bLock, seen >>
    /\ UNCHANGED << ctlVars, actVars, envVars >>

\* run_control_loop: the ct.cancelled() branch of select! wins.
CtlCancelled ==
    /\ pc["ctl"] = "select"
    /\ cancelled
    /\ pc' = [pc EXCEPT !["ctl"] = "done"]
    /\ UNCHANGED << eLock, fillVars, chan, cancelled, bLock, seen >>
    /\ UNCHANGED << ctlVars, actVars, envVars >>

\* Controller::run: self.sensor.lock().await returns the guard.
CtlLock ==
    /\ pc["ctl"] = "lock_b"
    /\ bLock = "none"
    /\ bLock' = "ctl"
    /\ pc' = [pc EXCEPT !["ctl"] = "analyze"]
    /\ seen' = [seen EXCEPT !.lockStep = @ /\ chan = << >> /\ actAction = None]
    /\ UNCHANGED << eLock, fillVars, chan, cancelled >>
    /\ UNCHANGED << ctlVars, actVars, envVars >>

\* Policy::analyze, NoOp: NoAction; the guard passed by value is dropped on return.
CtlNoOp ==
    /\ pc["ctl"] = "analyze"
    /\ policy = "NoOp"
    /\ ctlAction' = analyze(policy, data, << >>, << >>)
    /\ bLock' = "none"
    /\ pc' = [pc EXCEPT !["ctl"] = "send"]
    /\ UNCHANGED << eLock, fillVars, chan, cancelled, seen, ctlMin, produced >>
    /\ UNCHANGED << actVars, envVars >>

\* Mutant of CtlSmallest: the sensor is locked for each reading separately, so
\* the guard is dropped after the smallest bucket has been read.
CtlSmallestDropsGuard ==
    /\ pc["ctl"] = "analyze"
    /\ policy = "Spread"
    /\ \E o \in Orders(DOMAIN data) : ctlMin' = get_smallest_bucket(data, o)
    /\ bLock' = "none"
    /\ pc' = [pc EXCEPT !["ctl"] = "analyze_max"]
    /\ UNCHANGED << eLock, fillVars, chan, cancelled, seen, ctlAction, produced >>
    /\ UNCHANGED << actVars, envVars >>

\* Policy::analyze, Spread: let min_bucket = sensor.get_smallest_bucket();
CtlSmallest ==
    /\ pc["ctl"] = "analyze"
    /\ policy = "Spread"
    /\ \E o \in Orders(DOMAIN data) : ctlMin' = get_smallest_bucket(data, o)
    /\ pc' = [pc EXCEPT !["ctl"] = "analyze_max"]
    /\ UNCHANGED << eLock, fillVars, chan, cancelled, bLock, seen, ctlAction, produced >>
    /\ UNCHANGED << actVars, envVars >>

\* Mutant of CtlLargest: analyze borrows the guard, which then lives until
\* Controller::run returns; the send is awaited with the store locked.
CtlLargestKeepsGuard ==
    /\ pc["ctl"] = "analyze_max"
    /\ \E o \in Orders(DOMAIN data) :
          ctlAction' = spread(ctlMin, get_largest_bucket(data, o))
    /\ ctlMin' = None
    /\ pc' = [pc EXCEPT !["ctl"] = "send"]
    /\ UNCHANGED << eLock, fillVars, chan, cancelled, bLock, seen, produced >>
    /\ UNCHANGED << actVars, envVars >>

\* Policy::analyze, Spread: let max_bucket = sensor.get_largest_bucket(); the
\* Action is computed and the guard is dropped on return.
CtlLargest ==
    /\ pc["ctl"] = "analyze_max"
    /\ \E o \in Orders(DOMAIN data) :
          ctlAction' = spread(ctlMin, get_largest_bucket(data, o))
    /\ ctlMin' = None
    /\ bLock' = "none"
    /\ pc' = [pc EXCEPT !["ctl"] = "send"]
    /\ UNCHANGED << eLock, fillVars, chan, cancelled, seen, produced >>
    /\ UNCHANGED << actVars, envVars >>

\* Mutant of send: the new Action is put at the front of the buffer.
send_front(c, action) == << action >> \o c

\* Sender::send on a channel that has a free slot and whose Receiver is alive.
send(c, action) == Append(c, action)

\* Sender::send(...).await completes only when the channel has a free slot.
CanSend(c) == Len(c) < CONTROL_SIGNAL_BUFFER_SIZE

\* Mutant of CtlSend: try_send with the error ignored; on a full channel the
\* Action is dropped and the cycle ends.
CtlSendLossy ==
    /\ pc["ctl"] = "send"
    /\ chan' = IF CanSend(chan) THEN send(chan, ctlAction) ELSE chan
    /\ produced' = Append(produced, ctlAction)
    /\ ctlAction' = NoAction
    /\ pc' = [pc EXCEPT !["ctl"] = "select"]
    /\ UNCHANGED << eLock, fillVars, cancelled, bLock, seen, ctlMin >>
    /\ UNCHANGED << actVars, envVars >>

\* Controller::run: self.control_signal_tx.send(action).await?; Ok(())
CtlSend ==
    /\ pc["ctl"] = "send"
    /\ CanSend(chan)
    /\ chan' = send(chan, ctlAction)
    /\ produced' = Append(produced, ctlAction)
    /\ ctlAction' = NoAction
    /\ pc' = [pc EXCEPT !["ctl"] = "select"]
    /\ UNCHANGED << eLock, fillVars, cancelled, bLock, seen, ctlMin >>
    /\ UNCHANGED << actVars, envVars >>

CtlNext(bound) ==
    \/ CtlTimer(bound)
    \/ CtlCancelled
    \/ CtlLock
    \/ CtlNoOp
    \/ CtlSmallest
    \/ CtlLargest
    \/ CtlSend

\* ---------------------------------------------------------------- actuator task

\* run_actuator_loop: the sleep branch of select! wins; actuator.lock().await
\* (a mutex no other task takes) and Actuator::run starts.
ActTimer ==
    /\ pc["act"] = "select"
    /\ ~cancelled
    /\ pc' = [pc EXCEPT !["act"] = "recv"]
    /\ UNCHANGED << eLock, fillVars, chan, cancelled, bLock, seen >>
    /\ UNCHANGED << ctlVars, actVars, envVars >>

\* run_actuator_loop: the ct.cancelled() branch of select! wins.
ActCancelled ==
    /\ pc["act"] = "select"
    /\ cancelled
    /\ pc' = [pc EXCEPT !["act"] = "done"]
    /\ UNCHANGED << eLock, fillVars, chan, cancelled, bLock, seen >>
    /\ UNCHANGED << ctlVars, actVars, envVars >>

\* Actuator::run: self.control_signal_rx.recv().await yields Some(action).
ActRecv ==
    /\ pc["act"] = "recv"
    /\ chan # << >>
    /\ actAction' = Some(Head(chan))
    /\ chan' = Tail(chan)
    /\ received' = Append(received, Head(chan))
    /\ pc' = [pc EXCEPT !["act"] = "lock_b"]
    /\ UNCHANGED << eLock, fillVars, cancelled, bLock, seen, actDst, last >>
    /\ UNCHANGED << ctlVars, envVars >>

\* Actuator::run: recv().await yields None: the channel is empty and closed.
ActRecvNone ==
    /\ pc["act"] = "recv"
    /\ chan = << >>
    /\ closed
    /\ actAction' = None
    /\ seen' = [seen EXCEPT !.recvNone = TRUE]
    /\ pc' = [pc EXCEPT !["act"] = "lock_b"]
    /\ UNCHANGED << eLock, fillVars, chan, cancelled, bLock, actDst, received, last >>
    /\ UNCHANGED << ctlVars, envVars >>

\* Actuator::run: self.buckets.lock().await returns the guard.
ActLock ==
    /\ pc["act"] = "lock_b"
    /\ bLock = "none"
    /\ bLock' = "act"
    /\ pc' = [pc EXCEPT !["act"] = "apply"]
    /\ UNCHANGED << eLock, fillVars, chan, cancelled, seen >>
    /\ UNCHANGED << ctlVars, actVars, envVars >>

\* The record of a call of transfer on store d.
TransferCall(d, a, p) ==
    [op |-> "transfer", source |-> a.source, destination |-> a.destination,
     amount |-> a.amount, ok |-> p.ok, err |-> p.err, before |-> d]

\* buckets.transfer(source, destination, amount)?: the checks, then
\* self.data.insert(source, new_source_amount). An Err leaves Actuator::run
\* and, through the ? of run_actuator_loop, the task; the guard is dropped.
ActTransferSource ==
    /\ pc["act"] = "apply"
    /\ actAction # None
    /\ actAction[1].type = "Transfer"
    /\ LET a == actAction[1]
           p == transfer_plan(data, a.source, a.destination, a.amount)
       IN  /\ last' = TransferCall(data, a, p)
           /\ IF p.ok
              THEN /\ data' = insert(data, a.source, p.new_source_amount)
                   /\ actDst' = p.new_destination_amount
                   /\ pc' = [pc EXCEPT !["act"] = "apply_dst"]
                   /\ bLock' = bLock
              ELSE /\ data' = data
                   /\ actDst' = actDst
                   /\ pc' = [pc EXCEPT !["act"] = "failed"]
                   /\ bLock' = "none"
    /\ UNCHANGED << eLock, fillTodo, nFills, events, chan, cancelled, seen >>
    /\ UNCHANGED << actAction, received, ctlVars, envVars >>

\* NBuckets::transfer: self.data.insert(destination, new_destination_amount); Ok(())
ActTransferDestination ==
    /\ pc["act"] = "apply_dst"
    /\ data' = insert(data, actAction[1].destination, actDst)
    /\ actDst' = 0
    /\ pc' = [pc EXCEPT !["act"] = "lock_e"]
    /\ UNCHANGED << eLock, fillTodo, nFills, events, chan, cancelled, bLock, seen >>
    /\ UNCHANGED << actAction, received, last, ctlVars, envVars >>

\* The event Actuator::run adds after a transfer that returned Ok.
AppliedEvent(action) == [source |-> "Actuator", message |-> "applied action", action |-> action]

\* self.events.lock().await.add(EventSource::Actuator, "applied action: ..."); Ok(())
\* The store's guard is dropped when Actuator::run returns.
ActLog ==
    /\ pc["act"] = "lock_e"
    /\ events' = Append(events, AppliedEvent(actAction[1]))
    /\ bLock' = "none"
    /\ actAction' = None
    /\ pc' = [pc EXCEPT !["act"] = "select"]
    /\ UNCHANGED << eLock, data, fillTodo, nFills, chan, cancelled, seen >>
    /\ UNCHANGED << actDst, received, last, ctlVars, envVars >>

\* Mutant of ActNoAction: NoAction is applied as a Transfer of one unit from
\* bucket 1 to bucket 2.
ActNoActionMovesOne ==
    /\ pc["act"] = "apply"
    /\ actAction = Some(NoAction)
    /\ data' = transfer(data, 1, 2, 1).data
    /\ bLock' = "none"
    /\ actAction' = None
    /\ pc' = [pc EXCEPT !["act"] = "select"]
    /\ UNCHANGED << eLock, fillTodo, nFills, events, chan, cancelled, seen >>
    /\ UNCHANGED << actDst, received, last, ctlVars, envVars >>

\* Some(Action::NoAction) => Ok(())
ActNoAction ==
    /\ pc["act"] = "apply"
    /\ actAction = Some(NoAction)
    /\ bLock' = "none"
    /\ actAction' = None
    /\ pc' = [pc EXCEPT !["act"] = "select"]
    /\ UNCHANGED << eLock, fillVars, chan, cancelled, seen >>
    /\ UNCHANGED << actDst, received, last, ctlVars, envVars >>

\* None => return Ok(()): Actuator::run returns Ok to the loop of
\* run_actuator_loop, which goes round again.
ActNone ==
    /\ pc["act"] = "apply"
    /\ actAction = None
    /\ bLock' = "none"
    /\ pc' = [pc EXCEPT !["act"] = "select"]
    /\ UNCHANGED << eLock, fillVars, chan, cancelled, seen >>
    /\ UNCHANGED << actVars, ctlVars, envVars >>

\* The steps of the Actuator task while the channel's Sender is alive.
ActNext ==
    \/ ActTimer
    \/ ActCancelled
    \/ ActRecv
    \/ ActLock
    \/ ActTransferSource
    \/ ActTransferDestination
    \/ ActLog
    \/ ActNoAction

\* ------------------------------------------------------------- specifications

\* The four tasks of run(), under any interleaving.
Next ==
    \/ FillNext
    \/ TuiNext
    \/ CtlNext(MaxCycles)
    \/ ActNext

Spec == Init /\ [][Next]_vars

\* The Controller and the Actuator while the disturbance and the display are
\* still in their first sleep; key q may be pressed.
NextChan ==
    \/ CtlNext(MaxBurst)
    \/ ActNext
    \/ TuiKeyQ

SpecChan == Init /\ [][NextChan]_vars

\* The Controller, and with it the channel's Sender, is dropped: the producer
\* side shuts down while the Actuator task is alive.
SenderDropped ==
    /\ ~closed
    /\ pc["ctl"] \in {"select", "done"}
    /\ closed' = TRUE
    /\ pc' = [pc EXCEPT !["ctl"] = "done"]
    /\ UNCHANGED << eLock, fillVars, chan, cancelled, bLock, seen, policy, nOps >>
    /\ UNCHANGED << ctlVars, actVars >>

\* The Actuator task fed by a producer that may shut down.
NextClosed ==
    \/ CtlNext(MaxCycles)
    \/ ActNext
    \/ ActRecvNone
    \/ ActNone
    \/ SenderDropped
    \/ TuiKeyQ

SpecClosed == Init /\ [][NextClosed]_vars

\* ---------------------------------------------------- the store on its own

IsTransferCall(c) == c.op \in {"transfer", "apply"}

\* A disturbance pass: Buckets::fill
StoreFill ==
    /\ nOps < MaxOps
    /\ \E changes \in [DOMAIN data -> {0, 1}] : data' = fill(data, changes)
    /\ last' = [op |-> "fill", before |-> data]
    /\ nOps' = nOps + 1
    /\ UNCHANGED << eLock, policy, chan, closed, cancelled, pc, bLock, events, fillTodo,
                    ctlMin, ctlAction, actAction, actDst, produced, received,
                    nFills, seen >>

\* FinalControlElement::transfer with any ids and amount
StoreTransfer ==
    /\ nOps < MaxOps
    /\ \E s \in TransferIds, d \in TransferIds, a \in Amounts :
          LET r == transfer(data, s, d, a)
          IN  /\ data' = r.data
              /\ last' = TransferCall(data, Transfer(s, d, a), r)
    /\ nOps' = nOps + 1
    /\ UNCHANGED << eLock, policy, chan, closed, cancelled, pc, bLock, events, fillTodo,
                    ctlMin, ctlAction, actAction, actDst, produced, received,
                    nFills, seen >>

\* Sensor::get_smallest_bucket and Sensor::get_largest_bucket, the HashMap
\* iterating in any order
StoreSense ==
    /\ nOps < MaxOps
    /\ \E o1 \in Orders(DOMAIN data), o2 \in Orders(DOMAIN data) :
          last' = [op |-> "sense", before |-> data,
                   min |-> get_smallest_bucket(data, o1),
                   max |-> get_largest_bucket(data, o2)]
    /\ nOps' = nOps + 1
    /\ UNCHANGED << eLock, data, policy, chan, closed, cancelled, pc, bLock, events,
                    fillTodo, ctlMin, ctlAction, actAction, actDst, produced,
                    received, nFills, seen >>

\* Policy::analyze on the store
StoreAnalyze ==
    /\ nOps < MaxOps
    /\ \E o1 \in Orders(DOMAIN data), o2 \in Orders(DOMAIN data) :
          last' = [op |-> "analyze", before |-> data,
                   action |-> analyze(policy, data, o1, o2)]
    /\ nOps' = nOps + 1
    /\ UNCHANGED << eLock, data, policy, chan, closed, cancelled, pc, bLock, events,
                    fillTodo, ctlMin, ctlAction, actAction, actDst, produced,
                    received, nFills, seen >>

\* The Transfer just computed by Policy::analyze is applied to the store it
\* was computed from.
StoreApply ==
    /\ last.op = "analyze"
    /\ last.action.type = "Transfer"
    /\ LET a == last.action
           r == transfer(data, a.source, a.destination, a.amount)
       IN  /\ data' = r.data
           /\ last' = [TransferCall(data, a, r) EXCEPT !.op = "apply"]
    /\ nOps' = nOps + 1
    /\ UNCHANGED << eLock, policy, chan, closed, cancelled, pc, bLock, events, fillTodo,
                    ctlMin, ctlAction, actAction, actDst, produced, received,
                    nFills, seen >>

\* Sensor::get_bucket_quantity with any id: a point lookup through get_bucket
StoreGet ==
    /\ nOps < MaxOps
    /\ \E b \in TransferIds :
          LET r == get_bucket(data, b)
          IN  last' = [op |-> "get", bucket |-> b, before |-> data, ok |-> r.ok,
                       err |-> IF r.ok THEN "" ELSE "no bucket", val |-> r.val]
    /\ nOps' = nOps + 1
    /\ UNCHANGED << eLock, data, policy, chan, closed, cancelled, pc, bLock, events,
                    fillTodo, ctlMin, ctlAction, actAction, actDst, produced,
                    received, nFills, seen >>

\* FinalControlElement::add_bucket: Err("not implemented for type")
StoreAddBucket ==
    /\ nOps < MaxOps
    /\ last' = [op |-> "add_bucket", before |-> data, ok |-> FALSE,
                err |-> "not implemented for type"]
    /\ nOps' = nOps + 1
    /\ UNCHANGED << eLock, data, policy, chan, closed, cancelled, pc, bLock, events,
                    fillTodo, ctlMin, ctlAction, actAction, actDst, produced,
                    received, nFills, seen >>

InitStore == \E d \in StoreInputs, p \in Policies : InitWith(d, p)

NextStore ==
    \/ StoreFill
    \/ StoreGet
    \/ StoreAddBucket
    \/ StoreTransfer
    \/ StoreSense
    \/ StoreAnalyze
    \/ StoreApply

SpecStore == InitStore /\ [][NextStore]_vars

\* ---------------------------------------------------------------- lock step
\* The Controller and the Actuator alone, under Spread, never cancelled, the
\* Controller's timer firing only when no Action is outstanding: each Action is
\* applied before the next one is computed.

\* Initial mappings for the runs in lock step, all within [0, MAX_QUANTITY].
LockStepInputs ==
    { Map2(100, 0), Map2(99, 0), Map2(50, 50), Map3(45, 72, 38),
      Map3(72, 38, 72), Map3(0, 0, 100), (1 :> 10) }

\* run_control_loop: the sleep branch wins at a moment when the channel is
\* empty and the Actuator holds no Action.
CtlTimerInStep ==
    /\ chan = << >>
    /\ actAction = None
    /\ pc["act"] \in {"select", "recv"}
    /\ CtlTimer(MaxBurst)

NextLockStep ==
    \/ CtlTimerInStep
    \/ CtlLock
    \/ CtlSmallest
    \/ CtlLargest
    \/ CtlSend
    \/ ActTimer
    \/ ActRecv
    \/ ActLock
    \/ ActTransferSource
    \/ ActTransferDestination
    \/ ActLog
    \/ ActNoAction

InitLockStep == \E d \in LockStepInputs : InitWith(d, "Spread")

\* The timers keep firing and the runtime runs a task that can take a step.
SpecLockStep ==
    InitLockStep /\ [][NextLockStep]_vars /\ WF_vars(NextLockStep)

\* ------------------------------------------------------ the two locks apart
\* The same four tasks with the Events Mutex taken and released in separate
\* steps: a task at "lock_e" waits for it, a task at "log" holds it.

MaxLockCycles == 1

\* run_fill: events.lock().await returns the guard.
FillLockE ==
    /\ pc["fill"] = "lock_e"
    /\ eLock = "none"
    /\ eLock' = "fill"
    /\ pc' = [pc EXCEPT !["fill"] = "log"]
    /\ UNCHANGED << fillVars, chan, cancelled, bLock, seen >>
    /\ UNCHANGED << ctlVars, actVars, envVars >>

\* run_fill: .add(EventSource::Filler, ...); the guard, a temporary of the
\* statement, is dropped.
FillAdd ==
    /\ pc["fill"] = "log"
    /\ events' = Append(events, [source |-> "Filler", message |-> "filled"])
    /\ eLock' = "none"
    /\ pc' = [pc EXCEPT !["fill"] = "select"]
    /\ UNCHANGED << data, fillTodo, nFills, chan, cancelled, bLock, seen >>
    /\ UNCHANGED << ctlVars, actVars, envVars >>

\* run_tui: events.lock().await returns the guard.
TuiLockE ==
    /\ pc["tui"] = "lock_e"
    /\ eLock = "none"
    /\ eLock' = "tui"
    /\ pc' = [pc EXCEPT !["tui"] = "log"]
    /\ UNCHANGED << fillVars, chan, cancelled, bLock, seen >>
    /\ UNCHANGED << ctlVars, actVars, envVars >>

\* run_tui: .get_all().iter().map(...).collect(); the guard is dropped at the
\* end of the statement; then terminal.lock().await.draw(...).
TuiGetAll ==
    /\ pc["tui"] = "log"
    /\ eLock' = "none"
    /\ pc' = [pc EXCEPT !["tui"] = "select"]
    /\ UNCHANGED << fillVars, chan, cancelled, bLock, seen >>
    /\ UNCHANGED << ctlVars, actVars, envVars >>

\* Actuator::run: self.events.lock().await returns the guard; the store's guard
\* is still held.
ActLockE ==
    /\ pc["act"] = "lock_e"
    /\ eLock = "none"
    /\ eLock' = "act"
    /\ pc' = [pc EXCEPT !["act"] = "log"]
    /\ UNCHANGED << fillVars, chan, cancelled, bLock, seen >>
    /\ UNCHANGED << ctlVars, actVars, envVars >>

\* Actuator::run: .add(EventSource::Actuator, ...); Ok(()): the events guard is
\* dropped at the end of the statement, the store's guard on return.
ActAdd ==
    /\ pc["act"] = "log"
    /\ events' = Append(events, AppliedEvent(actAction[1]))
    /\ eLock' = "none"
    /\ bLock' = "none"
    /\ actAction' = None
    /\ pc' = [pc EXCEPT !["act"] = "select"]
    /\ UNCHANGED << data, fillTodo, nFills, chan, cancelled, seen >>
    /\ UNCHANGED << actDst, received, last, ctlVars, envVars >>

FillTask ==
    \/ FillTimer
    \/ FillCancelled
    \/ FillLock
    \/ FillBucket
    \/ FillUnlock
    \/ FillLockE
    \/ FillAdd

\* The display's own steps; the key q is the user's.
TuiTask ==
    \/ TuiTimer
    \/ TuiCancelled
    \/ TuiData
    \/ TuiLockE
    \/ TuiGetAll

CtlTask == CtlNext(MaxLockCycles)

ActTask ==
    \/ ActTimer
    \/ ActCancelled
    \/ ActRecv
    \/ ActLock
    \/ ActTransferSource
    \/ ActTransferDestination
    \/ ActLockE
    \/ ActAdd
    \/ ActNoAction

NextLocks ==
    \/ FillTask
    \/ TuiTask
    \/ TuiKeyQ
    \/ CtlTask
    \/ ActTask

\* The runtime runs every task that can take a step, and tokio's Mutex is
\* fair (it serves its waiters first come, first served): a task whose next
\* step is possible again and again, as the grant of a lock that keeps being
\* released is, eventually takes it. The key q may never come.
FairLocks ==
    /\ SF_vars(FillTask)
    /\ SF_vars(TuiTask)
    /\ SF_vars(CtlTask)
    /\ SF_vars(ActTask)

InitLocks == \E p \in Policies : InitWith(Map2(100, 0), p)

SpecLocks == InitLocks /\ [][NextLocks]_vars /\ FairLocks

\* ------------------------------------------------------------------- claims

AllEqual(d) == \A b, c \in DOMAIN d : d[b] = d[c]

\* C1: from an initial mapping within [0, MAX_QUANTITY], in every state reached
\* by any interleaving of disturbance steps and Actuator transfers every bucket
\* quantity is within [0, MAX_QUANTITY]; a disturbance step never raises a
\* bucket above MAX_QUANTITY.
C1_QuantitiesWithinRange == InRange(data)

\* C2: for all existing ids source and destination (source = destination
\* included) and all amounts, a transfer that succeeds leaves the sum of all
\* quantities as it was before the call.
C2_TransferConservesSum ==
    (IsTransferCall(last) /\ last.ok) => Total(data) = Total(last.before)

\* C3: when the store rejects the Transfer the Actuator dequeued, the rejection
\* is recorded in the event log, the store is unchanged, and the Actuator loop
\* keeps running (it has not returned).
C3_RejectionLoggedLoopContinues ==
    (last.op = "transfer" /\ ~last.ok) =>
        /\ data = last.before
        /\ pc["act"] \notin Finished
        /\ \E i \in DOMAIN events : events[i].source = "Actuator"
                                    /\ events[i].message = "rejected action"

\* C4: for every non-empty store whose buckets all hold the same quantity, the
\* Spread policy returns NoAction.
C4_SpreadAllEqualNoAction ==
    (last.op = "analyze" /\ policy = "Spread" /\ DOMAIN last.before # {}
        /\ AllEqual(last.before))
    => last.action = NoAction

MinQty(d) == CHOOSE v \in { d[b] : b \in DOMAIN d } : \A b \in DOMAIN d : v <= d[b]

MaxQty(d) == CHOOSE v \in { d[b] : b \in DOMAIN d } : \A b \in DOMAIN d : d[b] <= v

LowestIdWith(d, v) ==
    CHOOSE b \in DOMAIN d : d[b] = v /\ \A c \in DOMAIN d : d[c] = v => b <= c

\* C5: for every store whose buckets are not all equal, Spread returns a
\* Transfer from a largest bucket to a smallest bucket of half their difference,
\* rounded down; for {1:45, 2:72, 3:38} it is Transfer{2 -> 3, 17}, and applying
\* it yields {1:45, 2:55, 3:55}.
C5_SpreadHalvesTheGap ==
    /\ (last.op = "analyze" /\ policy = "Spread" /\ ~AllEqual(last.before)) =>
          LET d == last.before
              a == last.action
          IN  /\ a.type = "Transfer"
              /\ a.source \in DOMAIN d
              /\ d[a.source] = MaxQty(d)
              /\ a.destination \in DOMAIN d
              /\ d[a.destination] = MinQty(d)
              /\ a.amount = (MaxQty(d) - MinQty(d)) \div 2
    /\ (last.op = "analyze" /\ policy = "Spread"
            /\ last.before = Map3(45, 72, 38)) =>
          last.action = Transfer(2, 3, 17)
    /\ (last.op = "apply" /\ last.before = Map3(45, 72, 38)) =>
          (last.ok /\ data = Map3(45, 55, 55))

\* C5 witness: Spread's Transfer{2 -> 3, 17} has been applied to {1:45, 2:72, 3:38}.
C5_Scenario1Applied ==
    /\ last.op = "apply"
    /\ last.before = Map3(45, 72, 38)
    /\ last.amount = 17
    /\ data = Map3(45, 55, 55)

\* C6: extremum selection is deterministic with the lowest bucket id winning
\* ties: whatever the iteration order of the map, get_smallest_bucket returns
\* the lowest id among the buckets of minimum quantity and get_largest_bucket
\* the lowest id among the buckets of maximum quantity.
C6_LowestIdWinsTies ==
    (last.op = "sense" /\ DOMAIN last.before # {}) =>
        LET d == last.before
        IN  /\ last.min = Some(<< LowestIdWith(d, MinQty(d)), MinQty(d) >>)
            /\ last.max = Some(<< LowestIdWith(d, MaxQty(d)), MaxQty(d) >>)

\* C7: if cancellation is requested while the Actuator is blocked in recv on an
\* empty channel, the Actuator task exits without receiving or applying any
\* further Action; it does not stay blocked on the receive.
C7_CancelledReceiveExits ==
    seen.actBlockedAtCancel =>
        /\ pc["act"] \in {"recv", "done"}
        /\ pc["act"] = "recv" => ENABLED ActNext

\* C8: after cancellation is requested every core task (disturbance,
\* Controller loop, Actuator loop) terminates from whatever wait point it is
\* at: the run never comes to rest with a core task that has not returned.
C8_CancelledTasksTerminate ==
    cancelled => ((\A t \in CoreTasks : pc[t] \in Finished) \/ ENABLED Next)

\* C9: when the channel is closed and recv yields no Action, the Actuator
\* terminates its loop cleanly: it returns without error and does not go back
\* to sleep and receive again.
C9_ClosedChannelEndsLoop ==
    seen.recvNone => pc["act"] \in {"lock_b", "apply", "done"}

\* C10: the channel never holds more than its capacity; a Controller whose
\* send finds the channel full stays in send, with its Action, until the
\* Actuator has dequeued one; and no Action is dropped or overwritten: the
\* Actions sent are exactly those received followed by those still in the
\* channel.
C10_BackpressureKeepsEveryAction ==
    /\ [](/\ Len(chan) <= CONTROL_SIGNAL_BUFFER_SIZE
          /\ produced = received \o chan)
    /\ [][(pc["ctl"] = "send" /\ Len(chan) = CONTROL_SIGNAL_BUFFER_SIZE) =>
             /\ pc'["ctl"] = "send"
             /\ ctlAction' = ctlAction
             /\ produced' = produced]_vars

\* C10 witness: the Controller is blocked in send on a full channel.
C10_SendBlockedOnFullChannel ==
    /\ pc["ctl"] = "send"
    /\ Len(chan) = CONTROL_SIGNAL_BUFFER_SIZE
    /\ Len(produced) >= CONTROL_SIGNAL_BUFFER_SIZE

\* C11: the Actuator receives Actions in the order the Controller published
\* them: the Actions received so far are the first Len(received) Actions
\* published, one by one in the same positions.
C11_ReceivedInPublishedOrder ==
    /\ Len(received) <= Len(produced)
    /\ \A i \in 1..Len(received) : received[i] = produced[i]

\* C11 witness: two different Actions have been received, in the order they
\* were published, while a later Action is still in the channel.
C11_DistinctActionsReceivedInOrder ==
    /\ Len(received) >= 2
    /\ received[Len(received) - 1] # received[Len(received)]
    /\ chan # << >>

\* The store is between the two inserts of a transfer: the source has its new
\* amount, the destination not yet.
MidTransfer == pc["act"] = "apply_dst"

\* The store is inside a disturbance pass: some buckets have been visited, some
\* have not.
MidFill ==
    /\ pc["fill"] = "filling"
    /\ fillTodo # {}
    /\ fillTodo # DOMAIN data

\* Steps in which a task reads or mutates the store.
ControllerReads ==
    pc["ctl"] \in {"analyze", "analyze_max"} /\ pc'["ctl"] # pc["ctl"]

DisplayReads == pc["tui"] = "lock_b" /\ pc'["tui"] # "lock_b"

FillMutates == pc["fill"] = "filling" /\ fillTodo' # fillTodo

ActuatorMutates ==
    pc["act"] \in {"apply", "apply_dst"} /\ pc'["act"] # pc["act"]

\* C12: a transfer and a disturbance pass are atomic for every other task:
\* while the store is between the two inserts of a transfer, no step of the
\* Controller or the display reads it and no step of the disturbance mutates
\* it; while a disturbance pass has updated only some buckets, no step of the
\* Controller or the display reads it and no step of the Actuator mutates it;
\* and the two are never in progress together.
C12_TransferAndFillAtomic ==
    /\ [](~(MidTransfer /\ pc["fill"] = "filling"))
    /\ [][/\ MidTransfer => ~(ControllerReads \/ DisplayReads \/ FillMutates)
          /\ MidFill => ~(ControllerReads \/ DisplayReads \/ ActuatorMutates)]_vars

\* C12 witness: the source of a transfer has been decremented, the destination
\* not yet incremented, and the Controller, the disturbance and the display
\* all wait for the lock.
C12_OthersWaitDuringTransfer ==
    /\ MidTransfer
    /\ data[actAction[1].source] < last.before[actAction[1].source]
    /\ pc["ctl"] = "lock_b"
    /\ pc["fill"] = "lock_b"
    /\ pc["tui"] = "lock_b"

\* C13: within one Controller cycle the smallest and the largest bucket are
\* read from the same store state: from the reading of the smallest bucket to
\* the reading of the largest no step changes the store, and the smallest
\* bucket read is the smallest bucket of the store the largest is read from.
C13_PolicyReadsOneStoreState ==
    /\ [](pc["ctl"] = "analyze_max" =>
            \A o \in Orders(DOMAIN data) : ctlMin = get_smallest_bucket(data, o))
    /\ [][pc["ctl"] = "analyze_max" => data' = data]_vars

\* C13 witness: the smallest bucket has been read, the largest not yet, while
\* the disturbance and an Actuator holding a Transfer both wait for the lock.
C13_WritersWaitBetweenReads ==
    /\ pc["ctl"] = "analyze_max"
    /\ pc["fill"] = "lock_b"
    /\ pc["act"] = "lock_b"
    /\ actAction # None
    /\ actAction[1].type = "Transfer"
    /\ actAction[1].amount > 0

\* The last operation was a call of transfer naming two existing buckets.
TransferOfExisting ==
    /\ last.op = "transfer"
    /\ last.source \in DOMAIN last.before
    /\ last.destination \in DOMAIN last.before

\* C14: a transfer between existing buckets of an amount larger than the
\* source's quantity fails with the insufficient-source error and leaves every
\* bucket quantity unchanged.
C14_InsufficientSourceRejected ==
    (TransferOfExisting /\ last.amount > last.before[last.source]) =>
        /\ ~last.ok
        /\ last.err = "transfer amount exceeds source amount"
        /\ data = last.before

\* C14 witness: 17 was asked of a source holding 10, for a destination that
\* had room for it.
C14_SeventeenFromTen ==
    /\ TransferOfExisting
    /\ last.amount = 17
    /\ last.before[last.source] = 10
    /\ last.before[last.destination] = 0
    /\ ~last.ok

\* C15: a transfer between existing buckets of an amount the source holds
\* fails with the overflow error and leaves every bucket quantity unchanged
\* when it would take the destination above MAX_QUANTITY, and succeeds when
\* it takes the destination to MAX_QUANTITY exactly.
C15_OverflowRejectedFullAccepted ==
    (TransferOfExisting /\ last.amount <= last.before[last.source]) =>
        /\ last.before[last.destination] + last.amount > MAX_QUANTITY =>
              /\ ~last.ok
              /\ last.err = "destination amount is too large"
              /\ data = last.before
        /\ last.before[last.destination] + last.amount = MAX_QUANTITY =>
              last.ok

\* C15 witness: 1 moved into another bucket holding MAX_QUANTITY - 1 fills it
\* to MAX_QUANTITY exactly.
C15_FilledToTheBrim ==
    /\ TransferOfExisting
    /\ last.source # last.destination
    /\ last.amount = 1
    /\ last.before[last.destination] = MAX_QUANTITY - 1
    /\ last.ok
    /\ data[last.destination] = MAX_QUANTITY

\* C16: a point lookup or a transfer that names an id absent from the store
\* fails with the unknown-bucket error and leaves the store unchanged, and no
\* operation of the store creates or removes a bucket: after every operation
\* the set of ids is the set before it.
C16_UnknownBucketRejected ==
    /\ (last.op = "get" /\ last.bucket \notin DOMAIN last.before) =>
          ~last.ok /\ last.err = "no bucket" /\ data = last.before
    /\ (last.op = "transfer" /\ ~TransferOfExisting) =>
          ~last.ok /\ last.err = "no bucket" /\ data = last.before
    /\ last.op # "none" => DOMAIN data = DOMAIN last.before

\* C16 witness: on a store of buckets 1 and 2, an amount the source holds was
\* asked for the absent bucket 3, as the second operation on the store.
C16_TransferToAbsentBucket ==
    /\ last.op = "transfer"
    /\ DOMAIN last.before = {1, 2}
    /\ last.source = 1
    /\ last.destination = 3
    /\ last.amount = 1
    /\ last.before[1] >= 1
    /\ ~last.ok
    /\ nOps = 2

\* C17: a disturbance pass changes each bucket by 0 or 1 and decreases none,
\* so the sum of the quantities after the pass is at least the sum before it.
C17_FillAddsZeroOrOne ==
    last.op = "fill" =>
        /\ DOMAIN data = DOMAIN last.before
        /\ \A b \in DOMAIN data : data[b] - last.before[b] \in {0, 1}
        /\ Total(data) >= Total(last.before)

\* C17 witness: a pass over three buckets that raised one bucket by 1 and left
\* another as it was.
C17_OneRaisedOneKept ==
    /\ last.op = "fill"
    /\ Cardinality(DOMAIN data) = 3
    /\ data[1] = last.before[1] + 1
    /\ data[2] = last.before[2]
    /\ Total(data) > Total(last.before)

\* The Actuator finishes the handling of a NoAction it received.
HandlesNoAction ==
    /\ pc["act"] = "apply"
    /\ actAction = Some(NoAction)
    /\ pc'["act"] # "apply"

\* C18: the step in which the Actuator handles a NoAction leaves the store as
\* it was, and so does any number of them: as long as every Action received
\* was NoAction and no disturbance pass has run, the store is an initial store
\* and no Actuator event has been logged.
C18_NoActionLeavesStore ==
    /\ [][HandlesNoAction => data' = data /\ events' = events]_vars
    /\ []((nFills = 0 /\ \A i \in DOMAIN received : received[i] = NoAction)
             => (data \in InitialData /\ events = << >>))

\* C18 witness: three NoAction Actions have been received and handled one
\* after the other.
C18_ThreeNoActionsHandled ==
    /\ Len(received) = 3
    /\ \A i \in DOMAIN received : received[i] = NoAction
    /\ actAction = None
    /\ pc["act"] = "select"

\* Where a task waits on the timer (or the cancellation), on the channel, or
\* for the store lock itself, and where it has returned.
AwayFromStore == {"select", "recv", "send", "lock_b", "done", "failed"}

\* C19: no task holds the store lock while it waits on a timer sleep, a
\* channel receive or a channel send: the Controller has released the lock
\* when it publishes its Action, the Actuator does not hold it until its
\* receive has completed, and the disturbance holds it only during its pass.
\* The holder is always a task inside its store operation.
C19_LockHeldOnlyForStoreOperation ==
    /\ \A t \in Tasks : pc[t] \in AwayFromStore => bLock # t
    /\ bLock = "ctl" => pc["ctl"] \in {"analyze", "analyze_max"}
    /\ bLock = "act" => pc["act"] \in {"apply", "apply_dst", "lock_e"}
    /\ bLock = "fill" => pc["fill"] = "filling"
    /\ bLock \in {"none", "ctl", "act", "fill"}

\* C19 witness: the Controller waits in send with its Transfer and the
\* Actuator waits in recv, while the disturbance holds the lock for its pass.
C19_SendAndRecvWaitWithoutLock ==
    /\ pc["ctl"] = "send"
    /\ ctlAction # NoAction
    /\ pc["act"] = "recv"
    /\ bLock = "fill"

\* C20, as claimed: under Spread every Transfer the Actuator dequeues is
\* accepted by the store, whatever was queued with it and however stale the
\* state it was computed from.
C20_EveryDequeuedTransferAccepted ==
    (policy = "Spread" /\ last.op = "transfer") => last.ok

\* C20, amended: under Spread, with no disturbance pass and as long as every
\* Controller cycle has read the store with no earlier Action still waiting to
\* be applied (Controller and Actuator in lock step), every Transfer the
\* Actuator dequeues is accepted by the store and the Actuator has not failed.
C20_LockStepTransfersAccepted ==
    (policy = "Spread" /\ nFills = 0 /\ seen.lockStep) =>
        /\ last.op = "transfer" => last.ok
        /\ pc["act"] # "failed"

\* C20 witness: in lock step the Transfer of 50 and then a second Transfer,
\* computed after the first was applied, have both been accepted.
C20_TwoFreshTransfersAccepted ==
    /\ policy = "Spread"
    /\ seen.lockStep
    /\ Len(received) = 2
    /\ received[1] = Transfer(1, 2, 50)
    /\ last.op = "transfer"
    /\ last.ok
    /\ last.before = Map2(50, 50)
    /\ pc["act"] = "select"

\* C21: on a store whose quantities are all within [0, MAX_QUANTITY], the
\* Transfer computed by Spread asks no more than its source holds and takes
\* its destination to at most MAX_QUANTITY, and applying it to that same store
\* succeeds.
C21_SpreadTransferValidWhereComputed ==
    /\ (last.op = "analyze" /\ policy = "Spread" /\ InRange(last.before)
           /\ last.action.type = "Transfer") =>
          LET a == last.action
          IN  /\ a.amount <= last.before[a.source]
              /\ last.before[a.destination] + a.amount <= MAX_QUANTITY
              /\ transfer(last.before, a.source, a.destination, a.amount).ok
    /\ (last.op = "apply" /\ policy = "Spread" /\ InRange(last.before)) =>
          last.ok

\* C21 witness: the Transfer of 50 computed on {1:100, 2:0} has been applied
\* to that store and accepted, leaving 50 in each bucket.
C21_FiftyAppliedWhereComputed ==
    /\ last.op = "apply"
    /\ policy = "Spread"
    /\ last.before = Map2(100, 0)
    /\ last.amount = 50
    /\ last.ok
    /\ data = Map2(50, 50)

\* C22: whenever Spread returns a Transfer, on any store and in any iteration
\* order, its source and its destination are different bucket ids.
C22_SpreadNeverSelfTransfer ==
    (last.op = "analyze" /\ policy = "Spread" /\ last.action.type = "Transfer")
        => last.action.source # last.action.destination

\* C22 witness: on a store whose buckets all hold 50, where every bucket is
\* both a smallest and a largest one, Spread has returned a Transfer between
\* two different buckets.
C22_TiedStoreDistinctEnds ==
    /\ last.op = "analyze"
    /\ policy = "Spread"
    /\ last.before = Map3(50, 50, 50)
    /\ last.action.type = "Transfer"
    /\ last.action.source # last.action.destination

\* C23: the Actuator asks for and holds the Events lock only while it holds
\* the store lock; no task holds the Events lock while it waits for the store
\* lock (the holder of the Events lock is inside its events statement); and
\* under fair scheduling every request for either lock is eventually granted:
\* no task waits for a lock from some moment on for ever.
C23_NoCircularWaitOnTheTwoLocks ==
    /\ [](/\ pc["act"] \in {"lock_e", "log"} => bLock = "act"
          /\ \A t \in Tasks : eLock = t => pc[t] = "log"
          /\ \A t \in Tasks : pc[t] = "log" => eLock = t)
    /\ \A t \in Tasks : []<>(pc[t] \notin {"lock_b", "lock_e"})

\* C23 witness: the Actuator holds the store lock and waits for the Events
\* lock, which the disturbance holds, while the display waits for the store
\* lock.
C23_ActuatorWaitsForEventsHoldingStore ==
    /\ pc["act"] = "lock_e"
    /\ bLock = "act"
    /\ eLock = "fill"
    /\ pc["tui"] = "lock_b"

\* The difference between the largest and the smallest quantity of a store.
Gap(d) == MaxQty(d) - MinQty(d)

\* C24: with no disturbance and Controller and Actuator in lock step under
\* Spread, no step increases the difference between the largest and the
\* smallest quantity; the difference eventually is at most 1; and once it is
\* at most 1 no step changes the store.
C24_LockStepConverges ==
    /\ [][Gap(data') <= Gap(data)]_vars
    /\ <>(Gap(data) <= 1)
    /\ [][Gap(data) <= 1 => data' = data]_vars

\* C24 witness: from {1:45, 2:72, 3:38} four Transfers (17, 5, 2, 1) have
\* brought the store to {1:52, 2:52, 3:51}, and two more cycles have been
\* applied since without changing it.
C24_ConvergedAndStable ==
    /\ seen.lockStep
    /\ Len(received) = 6
    /\ received[1] = Transfer(2, 3, 17)
    /\ received[4].amount = 1
    /\ received[6].amount = 0
    /\ data = Map3(52, 52, 51)
    /\ actAction = None
    /\ pc["act"] = "select"

====
